---- MODULE Spec2Model ----
(***************************************************************************)
(* Model of the useHolocron hook (src/hooks/useHolocron.tsx): the voice    *)
(* interaction controller record -> upload -> receive -> playback.         *)
(*                                                                         *)
(* Every call of startRecording / stopRecording is an asynchronous task.   *)
(* A task runs synchronously from one await to the next; each action below *)
(* is one such synchronous run (the resumption after an await up to the    *)
(* next await or the end of the function).  Device, file and network       *)
(* calls are external: each may resolve or reject, chosen with \E.         *)
(***************************************************************************)
EXTENDS Integers, Sequences, FiniteSets, TLC

\* ---------------------------------------------------------------- bounds
MaxCalls == 3          \* number of startRecording/stopRecording calls issued

\* ------------------------------------------------------------- constants
Platforms == {"web", "native"}
FileUri == "response.mp3"       \* `${FileSystem.cacheDirectory}response.mp3`
Pad == 64                       \* the base64 padding character '='
Comma == 65                     \* the ',' of a data URL
Header == 66                    \* "data:audio/mpeg;base64" of a data URL

\* reply bodies the service may return (byte sequences), the empty one included
Replies == {<< >>, <<255, 251, 144, 7>>}

\* --------------------------------------------------------- pure functions
RECURSIVE Base64Encode(_)
\* FileReader.readAsDataURL: bytes -> base64 characters (0..63, Pad)
Base64Encode(bs) ==
  IF Len(bs) = 0 THEN << >>
  ELSE IF Len(bs) = 1 THEN
    << bs[1] \div 4, (bs[1] % 4) * 16, Pad, Pad >>
  ELSE IF Len(bs) = 2 THEN
    << bs[1] \div 4, (bs[1] % 4) * 16 + (bs[2] \div 16), (bs[2] % 16) * 4, Pad >>
  ELSE
    << bs[1] \div 4, (bs[1] % 4) * 16 + (bs[2] \div 16),
       (bs[2] % 16) * 4 + (bs[3] \div 64), bs[3] % 64 >>
    \o Base64Encode(SubSeq(bs, 4, Len(bs)))

RECURSIVE Base64Decode(_)
\* writeAsStringAsync(..., {encoding: Base64}): base64 characters -> bytes
Base64Decode(cs) ==
  IF Len(cs) < 4 THEN << >>
  ELSE IF cs[3] = Pad THEN
    << cs[1] * 4 + (cs[2] \div 16) >>
  ELSE IF cs[4] = Pad THEN
    << cs[1] * 4 + (cs[2] \div 16), (cs[2] % 16) * 16 + (cs[3] \div 4) >>
  ELSE
    << cs[1] * 4 + (cs[2] \div 16), (cs[2] % 16) * 16 + (cs[3] \div 4),
       (cs[3] % 4) * 64 + cs[4] >>
    \o Base64Decode(SubSeq(cs, 5, Len(cs)))

\* reader.result of readAsDataURL(blob)
DataURL(bs) == << Header, Comma >> \o Base64Encode(bs)

\* index of the first Comma of s at or after position i, Len(s)+1 if none
RECURSIVE NextComma(_, _)
NextComma(s, i) ==
  IF i > Len(s) THEN Len(s) + 1
  ELSE IF s[i] = Comma THEN i
  ELSE NextComma(s, i + 1)

\* s.split(',')[n] for n = 0 or 1 (the empty sequence when absent)
SplitComma(s, n) ==
  LET c1 == NextComma(s, 1)
      c2 == NextComma(s, c1 + 1)
  IN IF n = 0 THEN SubSeq(s, 1, c1 - 1)
     ELSE IF c1 > Len(s) THEN << >>
     ELSE SubSeq(s, c1 + 1, c2 - 1)

\* blobToBase64 taking the part before the comma of the data URL
blobToBase64Head(blob) == SplitComma(DataURL(blob), 0)

\* the base64 text blobToBase64 resolves with; << >> is falsy and rejects
blobToBase64(blob) == SplitComma(DataURL(blob), 1)

\* what writeAsStringAsync persists for a base64 string
WriteContent(b64) == Base64Decode(b64)

\* ------------------------------------------------------------------ state
VARIABLES
  isRecording,       \* useState: capturing
  isResponding,      \* useState: awaitingReply
  isAudioAvailable,  \* useState: captureAvailable
  recordingRef,      \* recordingRef.current: 0 (null) or a recording id
  soundRef,          \* soundRef.current: 0 (null) or a sound id
  platform,          \* Platform.OS
  apiConfigured,     \* process.env.EXPO_PUBLIC_API_URL is defined
  probe,             \* position of checkAudioAvailability
  mounted,           \* the component is mounted (cleanup has not run)
  recordings,        \* device: state of every Recording ever created
  sounds,            \* device: state of every Sound ever created
  audioMode,         \* device: last mode set with setAudioModeAsync
  files,             \* cache directory: path -> bytes
  netCalls,          \* number of network requests issued (fetch, axios.post)
  tasks              \* the calls of startRecording/stopRecording issued so far

vars == << isRecording, isResponding, isAudioAvailable, recordingRef, soundRef,
           platform, apiConfigured, probe, mounted, recordings, sounds,
           audioMode, files, netCalls, tasks >>

flags == << isRecording, isResponding, isAudioAvailable >>
refs == << recordingRef, soundRef >>
env == << platform, apiConfigured >>
device == << recordings, sounds, audioMode >>

\* a call of startRecording or stopRecording and what it has done so far
NewTask(kind, pc) ==
  [ kind   |-> kind,     \* "start" or "stop"
    pc     |-> pc,       \* the await the call is suspended at, or "done"
    err    |-> "none",   \* the error caught and logged by the call
    busy   |-> FALSE,    \* start: called while an interaction was active
    idle   |-> FALSE,    \* stop: called while no capture was active
    rec    |-> 0,        \* start: recording acquired; stop: handle stopped
    uri    |-> 0,        \* stop: recording whose URI getURI returned
    dev    |-> FALSE,    \* the call has made a device call
    net    |-> 0,        \* network requests made by the call
    reply  |-> << >>,    \* aiResponse.data
    b64    |-> << >>,    \* base64data
    old    |-> 0,        \* sound the call has unloaded
    sound  |-> 0,        \* sound the call has created
    wrote  |-> FALSE ]   \* the call has written the cache file

Tasks == 1 .. Len(tasks)
At(t, kind, pc) == t \in Tasks /\ tasks[t].kind = kind /\ tasks[t].pc = pc
Set(t, r) == [tasks EXCEPT ![t] = r]

\* a CaptureSession is held and not yet finalized or released
CaptureActive ==
  recordingRef # 0 /\ recordings[recordingRef] = "prepared"

\* an interaction is active or a startRecording is in flight
Busy ==
  \/ isRecording
  \/ isResponding
  \/ \E u \in Tasks : tasks[u].kind = "start" /\ tasks[u].pc # "done"

\* the empty cache directory
NoFiles == [p \in {} |-> << >>]

Init ==
  /\ isRecording = FALSE
  /\ isResponding = FALSE
  /\ isAudioAvailable = FALSE
  /\ recordingRef = 0
  /\ soundRef = 0
  /\ platform \in Platforms
  /\ apiConfigured \in BOOLEAN
  /\ probe = "pending"
  /\ mounted = TRUE
  /\ recordings = << >>
  /\ sounds = << >>
  /\ audioMode = "default"
  /\ files = NoFiles
  /\ netCalls = 0
  /\ tasks = << >>

\* ------------------------------------------------- checkAudioAvailability
\* the probe taking any answer of the permission request for a grant
ProbeAvailableAlways(granted) == TRUE

\* the value the probe passes to setIsAudioAvailable
ProbeAvailable(granted) == granted

\* requestPermissionsAsync resolves: setIsAudioAvailable(permission.granted)
ProbeResolve ==
  /\ probe = "pending"
  /\ \E granted \in BOOLEAN :
       /\ isAudioAvailable' = ProbeAvailable(granted)
       /\ probe' = IF granted THEN "granted" ELSE "denied"
  /\ UNCHANGED << isRecording, isResponding, refs, env, mounted, device,
                  files, netCalls, tasks >>

\* requestPermissionsAsync rejects: caught, setIsAudioAvailable(false)
ProbeReject ==
  /\ probe = "pending"
  /\ isAudioAvailable' = FALSE
  /\ probe' = "failed"
  /\ UNCHANGED << isRecording, isResponding, refs, env, mounted, device,
                  files, netCalls, tasks >>

\* --------------------------------------------------------- startRecording
\* the catch block of startRecording throwing the error on to the caller
StartRethrow == "thrown"

\* where startRecording goes once its catch block has logged an error: it
\* returns to the caller
StartCatch == "done"

\* startRecording without its capture gate
GateOpenAlways == TRUE

\* the capture gate of startRecording
GateOpen == isAudioAvailable

\* startRecording() is called with capture unavailable: throws, caught
StartCallUnavailable ==
  /\ mounted
  /\ Len(tasks) < MaxCalls
  /\ ~GateOpen
  /\ tasks' = Append(tasks, [NewTask("start", StartCatch) EXCEPT
                               !.err = "CaptureUnavailable", !.busy = Busy])
  /\ UNCHANGED << flags, refs, env, probe, mounted, device, files, netCalls >>

\* startRecording() is called: suspends at requestPermissionsAsync
StartCall ==
  /\ mounted
  /\ Len(tasks) < MaxCalls
  /\ GateOpen
  /\ tasks' = Append(tasks, [NewTask("start", "perm") EXCEPT
                               !.busy = Busy, !.dev = TRUE])
  /\ UNCHANGED << flags, refs, env, probe, mounted, device, files, netCalls >>

\* requestPermissionsAsync resolves with granted: setAudioModeAsync is called
StartPermGranted(t) ==
  /\ At(t, "start", "perm")
  /\ tasks' = Set(t, [tasks[t] EXCEPT !.pc = "mode"])
  /\ UNCHANGED << flags, refs, env, probe, mounted, device, files, netCalls >>

\* requestPermissionsAsync resolves with granted = false: throws, caught
StartPermDenied(t) ==
  /\ At(t, "start", "perm")
  /\ tasks' = Set(t, [tasks[t] EXCEPT !.pc = StartCatch, !.err = "PermissionDenied"])
  /\ UNCHANGED << flags, refs, env, probe, mounted, device, files, netCalls >>

\* setAudioModeAsync resolves: Recording.createAsync is called
StartModeSet(t) ==
  /\ At(t, "start", "mode")
  /\ audioMode' = "record"
  /\ tasks' = Set(t, [tasks[t] EXCEPT !.pc = "create"])
  /\ UNCHANGED << flags, refs, env, probe, mounted, recordings, sounds,
                  files, netCalls >>

\* Recording.createAsync resolves: recordingRef.current = recording,
\* setIsRecording(true)
StartCreated(t) ==
  /\ At(t, "start", "create")
  /\ recordings' = Append(recordings, "prepared")
  /\ recordingRef' = Len(recordings) + 1
  /\ isRecording' = TRUE
  /\ tasks' = Set(t, [tasks[t] EXCEPT !.pc = "done", !.rec = Len(recordings) + 1])
  /\ UNCHANGED << isResponding, isAudioAvailable, soundRef, env, probe,
                  mounted, sounds, audioMode, files, netCalls >>

\* an awaited device call of startRecording rejects: caught and logged
StartReject(t) ==
  /\ t \in Tasks
  /\ tasks[t].kind = "start"
  /\ tasks[t].pc \in {"perm", "mode", "create"}
  /\ tasks' = Set(t, [tasks[t] EXCEPT !.pc = StartCatch, !.err = "DeviceError"])
  /\ UNCHANGED << flags, refs, env, probe, mounted, device, files, netCalls >>

\* ---------------------------------------------------------- stopRecording
\* where sendToAI goes once its catch and finally blocks have run: it
\* returns to stopRecording, which returns to the caller
SendCatch == "done"

\* where stopRecording goes once its catch block has logged an error and
\* reset isResponding: it returns to the caller
StopCatch == "done"

\* sendToAI without its endpoint check
ApiUrlAssumed == TRUE

\* process.env.EXPO_PUBLIC_API_URL is truthy
ApiUrlDefined == apiConfigured

\* sendToAI(uri) up to its first await: the endpoint check, then fetch(uri)
\* on web or axios.post on native; a missing endpoint throws, is caught in
\* sendToAI and its finally runs setIsResponding(false)
SendStart(t, r) ==
  IF ~ApiUrlDefined
  THEN /\ tasks' = Set(t, [r EXCEPT !.pc = SendCatch, !.err = "ConfigurationError"])
       /\ isResponding' = FALSE
       /\ netCalls' = netCalls
  ELSE /\ tasks' = Set(t, [r EXCEPT !.pc = IF platform = "web" THEN "fetch" ELSE "post",
                                    !.net = @ + 1])
       /\ isResponding' = TRUE
       /\ netCalls' = netCalls + 1

\* stopRecording logging a finalize error without aborting the upload
AfterFinalizeNoAbort(t, r, e) == SendStart(t, [r EXCEPT !.err = e])

\* the end of the try block of stopRecording: a finalize error e is thrown
\* and caught (setIsResponding(false)), otherwise setIsResponding(true) and
\* sendToAI(uri)
AfterFinalize(t, r, e) ==
  IF e # "none"
  THEN /\ tasks' = Set(t, [r EXCEPT !.pc = StopCatch, !.err = e])
       /\ isResponding' = FALSE
       /\ netCalls' = netCalls
  ELSE SendStart(t, r)

\* stopRecording() is called with recordingRef.current null: returns
StopCallNoSession ==
  /\ mounted
  /\ Len(tasks) < MaxCalls
  /\ recordingRef = 0
  /\ isRecording' = FALSE
  /\ tasks' = Append(tasks, [NewTask("stop", "done") EXCEPT !.idle = TRUE])
  /\ UNCHANGED << isResponding, isAudioAvailable, refs, env, probe, mounted,
                  device, files, netCalls >>

\* stopRecording() is called: setIsRecording(false), suspends at
\* recordingRef.current.stopAndUnloadAsync()
StopCall ==
  /\ mounted
  /\ Len(tasks) < MaxCalls
  /\ recordingRef # 0
  /\ isRecording' = FALSE
  /\ tasks' = Append(tasks, [NewTask("stop", "stopping") EXCEPT
                               !.idle = ~CaptureActive, !.rec = recordingRef,
                               !.dev = TRUE])
  /\ UNCHANGED << isResponding, isAudioAvailable, refs, env, probe, mounted,
                  device, files, netCalls >>

\* stopAndUnloadAsync resolves; recordingRef.current.getURI() is null
StopNoUri(t) ==
  /\ At(t, "stop", "stopping")
  /\ recordings' = [recordings EXCEPT ![tasks[t].rec] = "unloaded"]
  /\ AfterFinalize(t, tasks[t], "NoRecordingProduced")
  /\ UNCHANGED << isRecording, isAudioAvailable, refs, env, probe, mounted,
                  sounds, audioMode, files >>

\* stopAndUnloadAsync resolves on native, getURI() gives a URI: suspends at
\* recordingRef.current.getStatusAsync()
StopStatusAsk(t) ==
  /\ At(t, "stop", "stopping")
  /\ platform # "web"
  /\ recordings' = [recordings EXCEPT ![tasks[t].rec] = "unloaded"]
  /\ tasks' = Set(t, [tasks[t] EXCEPT !.pc = "status", !.uri = recordingRef])
  /\ UNCHANGED << flags, refs, env, probe, mounted, sounds, audioMode, files,
                  netCalls >>

\* stopAndUnloadAsync resolves on web, getURI() gives a URI
StopSendWeb(t) ==
  /\ At(t, "stop", "stopping")
  /\ platform = "web"
  /\ recordings' = [recordings EXCEPT ![tasks[t].rec] = "unloaded"]
  /\ AfterFinalize(t, [tasks[t] EXCEPT !.uri = recordingRef], "none")
  /\ UNCHANGED << isRecording, isAudioAvailable, refs, env, probe, mounted,
                  sounds, audioMode, files >>

\* getStatusAsync resolves with isDoneRecording = false
StopStatusNotDone(t) ==
  /\ At(t, "stop", "status")
  /\ AfterFinalize(t, tasks[t], "IncompleteRecording")
  /\ UNCHANGED << isRecording, isAudioAvailable, refs, env, probe, mounted,
                  device, files >>

\* getStatusAsync resolves with isDoneRecording = true
StopSendNative(t) ==
  /\ At(t, "stop", "status")
  /\ AfterFinalize(t, tasks[t], "none")
  /\ UNCHANGED << isRecording, isAudioAvailable, refs, env, probe, mounted,
                  device, files >>

\* stopAndUnloadAsync or getStatusAsync rejects: caught in stopRecording,
\* setIsResponding(false)
StopReject(t) ==
  /\ t \in Tasks
  /\ tasks[t].kind = "stop"
  /\ tasks[t].pc \in {"stopping", "status"}
  /\ tasks' = Set(t, [tasks[t] EXCEPT !.pc = StopCatch, !.err = "DeviceError"])
  /\ isResponding' = FALSE
  /\ UNCHANGED << isRecording, isAudioAvailable, refs, env, probe, mounted,
                  device, files, netCalls >>

\* --------------------------------------------------------------- sendToAI
\* sendToAI without the reset of its finally block
FinallyKeepsResponding == isResponding

\* the finally block of sendToAI: setIsResponding(false)
FinallyResponding == FALSE

\* sendToAI treating every settled axios.post as a response
PostNextIgnoringStatus(ok) == IF platform = "web" THEN "webplay" ELSE "b64"

\* where sendToAI continues once axios.post has settled: a rejection (a
\* non-success status) goes to the catch block, a response to playback
PostNext(ok) ==
  IF ~ok THEN SendCatch
  ELSE IF platform = "web" THEN "webplay" ELSE "b64"

\* the error logged when the call awaited at pc rejects
RejectError(pc) ==
  IF pc \in {"fetch", "blob"} THEN "FetchError"
  ELSE IF pc = "b64" THEN "DecodeError"
  ELSE "PlaybackPreparationError"

\* fetch(uri) resolves on web: suspends at response.blob()
SendFetched(t) ==
  /\ At(t, "stop", "fetch")
  /\ tasks' = Set(t, [tasks[t] EXCEPT !.pc = "blob"])
  /\ UNCHANGED << flags, refs, env, probe, mounted, device, files, netCalls >>

\* response.blob() resolves on web: axios.post is called
SendBlobRead(t) ==
  /\ At(t, "stop", "blob")
  /\ tasks' = Set(t, [tasks[t] EXCEPT !.pc = "post", !.net = @ + 1])
  /\ netCalls' = netCalls + 1
  /\ UNCHANGED << flags, refs, env, probe, mounted, device, files >>

\* axios.post resolves with the reply bytes: audioElement.play() is called on
\* web, blobToBase64 on native
SendPostOk(t) ==
  /\ At(t, "stop", "post")
  /\ \E reply \in Replies :
       tasks' = Set(t, [tasks[t] EXCEPT !.pc = PostNext(TRUE), !.reply = reply])
  /\ UNCHANGED << flags, refs, env, probe, mounted, device, files, netCalls >>

\* axios.post rejects with a non-success status: caught, logged, finally
SendPostFail(t) ==
  /\ At(t, "stop", "post")
  /\ tasks' = Set(t, [tasks[t] EXCEPT !.pc = PostNext(FALSE),
                                      !.err = "TransportError"])
  /\ isResponding' = IF PostNext(FALSE) = "done" THEN FinallyResponding
                     ELSE isResponding
  /\ UNCHANGED << isRecording, isAudioAvailable, refs, env, probe, mounted,
                  device, files, netCalls >>

\* blobToBase64 resolves with a non-empty string: writeAsStringAsync is called
SendB64Ok(t) ==
  /\ At(t, "stop", "b64")
  /\ blobToBase64(tasks[t].reply) # << >>
  /\ tasks' = Set(t, [tasks[t] EXCEPT !.pc = "write",
                                      !.b64 = blobToBase64(tasks[t].reply)])
  /\ UNCHANGED << flags, refs, env, probe, mounted, device, files, netCalls >>

\* blobToBase64 finds an empty base64 string: rejects, caught, finally
SendB64Empty(t) ==
  /\ At(t, "stop", "b64")
  /\ blobToBase64(tasks[t].reply) = << >>
  /\ tasks' = Set(t, [tasks[t] EXCEPT !.pc = SendCatch, !.err = "DecodeError"])
  /\ isResponding' = FinallyResponding
  /\ UNCHANGED << isRecording, isAudioAvailable, refs, env, probe, mounted,
                  device, files, netCalls >>

\* writeAsStringAsync resolves: the cache file holds the reply; then
\* soundRef.current.unloadAsync() if a sound is held, else Sound.createAsync
SendWritten(t) ==
  /\ At(t, "stop", "write")
  /\ files' = (FileUri :> WriteContent(tasks[t].b64)) @@ files
  /\ tasks' = Set(t, [tasks[t] EXCEPT
                        !.wrote = TRUE,
                        !.pc = IF soundRef # 0 THEN "unload" ELSE "createSound",
                        !.old = soundRef])
  /\ UNCHANGED << flags, refs, env, probe, mounted, device, netCalls >>

\* unloadAsync resolves: Sound.createAsync is called
SendUnloaded(t) ==
  /\ At(t, "stop", "unload")
  /\ sounds' = [sounds EXCEPT ![tasks[t].old] = "unloaded"]
  /\ tasks' = Set(t, [tasks[t] EXCEPT !.pc = "createSound"])
  /\ UNCHANGED << flags, refs, env, probe, mounted, recordings, audioMode,
                  files, netCalls >>

\* Sound.createAsync({uri}, {shouldPlay: true}) resolves:
\* soundRef.current = sound, setAudioModeAsync is called
SendSoundCreated(t) ==
  /\ At(t, "stop", "createSound")
  /\ sounds' = Append(sounds, "playing")
  /\ soundRef' = Len(sounds) + 1
  /\ tasks' = Set(t, [tasks[t] EXCEPT !.pc = "playmode", !.sound = Len(sounds) + 1])
  /\ UNCHANGED << flags, recordingRef, env, probe, mounted, recordings,
                  audioMode, files, netCalls >>

\* setAudioModeAsync resolves: sound.playAsync() is called
SendPlayModeSet(t) ==
  /\ At(t, "stop", "playmode")
  /\ audioMode' = "playback"
  /\ tasks' = Set(t, [tasks[t] EXCEPT !.pc = "play"])
  /\ UNCHANGED << flags, refs, env, probe, mounted, recordings, sounds,
                  files, netCalls >>

\* sound.playAsync() or audioElement.play() resolves: finally
SendPlayed(t) ==
  /\ t \in Tasks
  /\ tasks[t].kind = "stop"
  /\ tasks[t].pc \in {"play", "webplay"}
  /\ tasks' = Set(t, [tasks[t] EXCEPT !.pc = "done"])
  /\ isResponding' = FinallyResponding
  /\ UNCHANGED << isRecording, isAudioAvailable, refs, env, probe, mounted,
                  device, files, netCalls >>

\* an awaited call of sendToAI other than axios.post rejects: caught, finally
SendReject(t) ==
  /\ t \in Tasks
  /\ tasks[t].kind = "stop"
  /\ tasks[t].pc \in {"fetch", "blob", "b64", "write", "unload", "createSound",
                      "playmode", "play", "webplay"}
  /\ tasks' = Set(t, [tasks[t] EXCEPT !.pc = SendCatch,
                                      !.err = RejectError(tasks[t].pc)])
  /\ isResponding' = FinallyResponding
  /\ UNCHANGED << isRecording, isAudioAvailable, refs, env, probe, mounted,
                  device, files, netCalls >>

\* ---------------------------------------------------------------- cleanup
\* the state of handle h of the device list hs after a release call that
\* is not awaited: released if the call succeeds (ok), unchanged otherwise
Released(hs, h, ok) ==
  IF h # 0 /\ ok THEN [hs EXCEPT ![h] = "unloaded"] ELSE hs

\* the component unmounts: the effect cleanup unloads the recording and the
\* sound the refs hold, without awaiting, errors logged
Unmount ==
  /\ mounted
  /\ mounted' = FALSE
  /\ \E okR \in BOOLEAN : recordings' = Released(recordings, recordingRef, okR)
  /\ \E okS \in BOOLEAN : sounds' = Released(sounds, soundRef, okS)
  /\ UNCHANGED << flags, refs, env, probe, audioMode, files, netCalls, tasks >>

\* ------------------------------------------------------------------- spec
\* one resumption of the call t
TaskStep(t) ==
  \/ StartPermGranted(t)
  \/ StartPermDenied(t)
  \/ StartModeSet(t)
  \/ StartCreated(t)
  \/ StartReject(t)
  \/ StopNoUri(t)
  \/ StopStatusAsk(t)
  \/ StopSendWeb(t)
  \/ StopStatusNotDone(t)
  \/ StopSendNative(t)
  \/ StopReject(t)
  \/ SendFetched(t)
  \/ SendBlobRead(t)
  \/ SendPostOk(t)
  \/ SendPostFail(t)
  \/ SendB64Ok(t)
  \/ SendB64Empty(t)
  \/ SendWritten(t)
  \/ SendUnloaded(t)
  \/ SendSoundCreated(t)
  \/ SendPlayModeSet(t)
  \/ SendPlayed(t)
  \/ SendReject(t)

Next ==
  \/ ProbeResolve
  \/ ProbeReject
  \/ StartCallUnavailable
  \/ StartCall
  \/ StopCallNoSession
  \/ StopCall
  \/ Unmount
  \/ \E t \in Tasks : TaskStep(t)

Spec == Init /\ [][Next]_vars

\* every awaited device, file and network call eventually settles: a
\* suspended call is eventually resumed, and so is the probe
FairSpec ==
  /\ Spec
  /\ WF_vars(\E t \in Tasks : TaskStep(t))
  /\ WF_vars(ProbeResolve \/ ProbeReject)

\* ----------------------------------------------------------------- claims
\* the call t is a stopRecording that ran finalize, upload and playback
\* start to the end without an error
Succeeded(t) ==
  /\ tasks[t].kind = "stop"
  /\ tasks[t].pc = "done"
  /\ tasks[t].err = "none"
  /\ tasks[t].net > 0

\* the sounds loaded on the device and not unloaded
LoadedSounds == {s \in DOMAIN sounds : sounds[s] # "unloaded"}

\* the call t ends in this step
Ends(t) == tasks[t].pc # "done" /\ tasks'[t].pc = "done"

\* the controller is Idle after the step in which the call t ended: the reply
\* is no longer awaited, and capture is off unless a startRecording has in
\* the meantime installed another recording
IdleAfter(t) ==
  /\ isResponding' = FALSE
  /\ (recordingRef' = tasks'[t].rec => isRecording' = FALSE)

\* C1: capturing (isRecording) and awaitingReply (isResponding) are never
\* both true.
C1_NeverBoth == ~(isRecording /\ isResponding)

\* C2: a startRecording called while an interaction is active (capturing,
\* awaiting a reply, or another start in flight) acquires no recording.
C2_NoSecondSession ==
  \A t \in Tasks :
    (tasks[t].kind = "start" /\ tasks[t].busy) => tasks[t].rec = 0

\* C3: while capture is unavailable no recording is ever acquired and
\* capturing is false; a startRecording refused for unavailability has made
\* no device call and holds no recording.
C3_UnavailableNeverCaptures ==
  /\ ~isAudioAvailable =>
       (~isRecording /\ recordingRef = 0 /\ recordings = << >>)
  /\ \A t \in Tasks :
       tasks[t].err = "CaptureUnavailable" =>
         (tasks[t].pc = "done" /\ tasks[t].rec = 0 /\ ~tasks[t].dev)

\* a startRecording was called with capture unavailable and has returned
C3_Witness ==
  \E t \in Tasks :
    /\ tasks[t].kind = "start"
    /\ tasks[t].err = "CaptureUnavailable"
    /\ tasks[t].pc = "done"
    /\ ~isAudioAvailable
    /\ probe # "pending"

\* C4: a stopRecording called while no capture is active makes no device
\* call and no network call.
C4_StopIdleNoop ==
  \A t \in Tasks :
    (tasks[t].kind = "stop" /\ tasks[t].idle) =>
      (~tasks[t].dev /\ tasks[t].net = 0)

\* C5: the step that ends a fully successful interaction (playback started)
\* leaves awaitingReply false, and capturing false as long as no other
\* startRecording has installed a new recording since the stop.
C5_HappyPathEndsIdle ==
  [][\A t \in Tasks :
       (Ends(t) /\ tasks'[t].err = "none" /\ tasks'[t].net > 0) => IdleAfter(t)]_vars

\* a successful interaction has ended and the controller is Idle
C5_Witness ==
  \E t \in Tasks :
    /\ Succeeded(t)
    /\ tasks[t].uri = tasks[t].rec
    /\ recordings[tasks[t].rec] = "unloaded"
    /\ ~isRecording
    /\ ~isResponding

\* C6: an interaction whose transport request fails with a non-success
\* status ends at once, Idle, having written no cache file and created or
\* released no sound; the step leaves soundRef, the sounds and the cache
\* files as they were.
C6_TransportFailure ==
  /\ [](\A t \in Tasks :
          tasks[t].err = "TransportError" =>
            /\ tasks[t].pc = "done"
            /\ ~tasks[t].wrote
            /\ tasks[t].sound = 0
            /\ tasks[t].old = 0)
  /\ [][\A t \in Tasks :
          (Ends(t) /\ tasks'[t].err = "TransportError") =>
            /\ IdleAfter(t)
            /\ UNCHANGED << soundRef, sounds, files >>]_vars

\* a transport request has failed and the controller is Idle
C6_Witness ==
  \E t \in Tasks :
    /\ tasks[t].err = "TransportError"
    /\ tasks[t].pc = "done"
    /\ ~isRecording
    /\ ~isResponding

\* C7: at most one sound is loaded and not unloaded.
C7_OneLoadedSound == Cardinality(LoadedSounds) <= 1

\* C8: a stopRecording whose finalize fails (no URI, or recording not done)
\* makes no network request, and the step in which it fails leaves the
\* controller Idle.
C8_FinalizeFailureAborts ==
  /\ [](\A t \in Tasks :
          tasks[t].err \in {"NoRecordingProduced", "IncompleteRecording"} =>
            (tasks[t].pc = "done" /\ tasks[t].net = 0))
  /\ [][\A t \in Tasks :
          (Ends(t) /\ tasks'[t].err \in {"NoRecordingProduced", "IncompleteRecording"})
            => (IdleAfter(t) /\ netCalls' = netCalls)]_vars

\* a finalize has failed after a capture and no request was made for it
C8_Witness ==
  \E t \in Tasks :
    /\ tasks[t].err \in {"NoRecordingProduced", "IncompleteRecording"}
    /\ tasks[t].pc = "done"
    /\ tasks[t].rec # 0
    /\ ~isRecording
    /\ ~isResponding

\* C9: with the endpoint not configured no network request is ever made,
\* no reply is ever awaited, and every send ends with ConfigurationError.
C9_NoEndpointNoRequest ==
  ~apiConfigured =>
    /\ netCalls = 0
    /\ ~isResponding
    /\ \A t \in Tasks :
         /\ tasks[t].net = 0
         /\ (tasks[t].kind = "stop" /\ tasks[t].uri # 0 /\ tasks[t].pc = "done"
               /\ tasks[t].err \notin {"IncompleteRecording", "DeviceError"})
            => tasks[t].err = "ConfigurationError"

\* start then stop with no endpoint: ConfigurationError, Idle, no request
C9_Witness ==
  \E t \in Tasks :
    /\ ~apiConfigured
    /\ tasks[t].err = "ConfigurationError"
    /\ tasks[t].pc = "done"
    /\ netCalls = 0
    /\ ~isRecording
    /\ ~isResponding

NoStopInFlight ==
  \A u \in Tasks : tasks[u].kind = "stop" => tasks[u].pc = "done"

\* the startRecording t was called with the controller Idle and no later
\* startRecording has acquired a recording
StartedAlone(t) ==
  /\ ~tasks[t].busy
  /\ \A u \in Tasks :
       (u > t /\ tasks'[u].kind = "start") => tasks'[u].rec = 0

\* C11: no call ever throws to its caller: a call that has caught an error
\* has returned.  awaitingReply is false whenever no stopRecording is in
\* flight.  The step that ends a failing stopRecording leaves awaitingReply
\* false, and capturing false unless another startRecording has installed a
\* new recording since; the step that ends a failing startRecording has
\* acquired nothing, changes no flag and no handle, and leaves capturing
\* false if the call was made with the controller Idle and no later
\* startRecording has acquired a recording.
C11_FailuresEndIdle ==
  /\ [](/\ \A t \in Tasks :
             /\ tasks[t].pc # "thrown"
             /\ tasks[t].err # "none" => tasks[t].pc = "done"
        /\ NoStopInFlight => ~isResponding)
  /\ [][\A t \in Tasks :
          (Ends(t) /\ tasks'[t].err # "none") =>
            IF tasks[t].kind = "stop"
            THEN IdleAfter(t)
            ELSE /\ tasks'[t].rec = 0
                 /\ UNCHANGED << flags, refs >>
                 /\ StartedAlone(t) => isRecording' = FALSE]_vars

\* a startRecording has failed on the permission and a stopRecording has
\* failed while preparing playback; both have returned, the flags are idle
C11_Witness ==
  \E t, u \in Tasks :
    /\ tasks[t].kind = "start"
    /\ tasks[t].err \in {"PermissionDenied", "DeviceError"}
    /\ tasks[t].pc = "done"
    /\ tasks[u].kind = "stop"
    /\ tasks[u].err \in {"DecodeError", "PlaybackPreparationError"}
    /\ tasks[u].pc = "done"
    /\ ~isRecording
    /\ ~isResponding

\* C12: captureAvailable is true exactly when the probe's permission request
\* has returned granted: it is false while the probe is pending, when the
\* request was denied and when it threw, and nothing else ever changes it.
C12_ProbeSetsAvailability ==
  /\ [](isAudioAvailable <=> probe = "granted")
  /\ [][isAudioAvailable' # isAudioAvailable => probe = "pending"]_vars

\* the probe's request threw, capture is unavailable, and a later
\* startRecording has run and left it so
C12_WitnessFailed ==
  /\ probe = "failed"
  /\ ~isAudioAvailable
  /\ \E t \in Tasks : tasks[t].pc = "done"

\* the recordings acquired on the device and not stopped and unloaded
HeldRecordings == {r \in DOMAIN recordings : recordings[r] = "prepared"}

\* C13: the teardown calls release on every recording and sound that is
\* open, and no recording or sound is acquired after the teardown (such a
\* session is released by nobody).
C13_TeardownReleasesAll ==
  [][/\ (mounted /\ ~mounted') =>
          (HeldRecordings \subseteq {recordingRef} /\ LoadedSounds \subseteq {soundRef})
     /\ ~mounted =>
          (Len(recordings') = Len(recordings) /\ Len(sounds') = Len(sounds))]_vars

\* the awaits of the transport stage and of the playback stage of sendToAI
TransportPcs == {"fetch", "blob", "post"}
PlaybackPcs == {"webplay", "b64", "write", "unload", "createSound", "playmode", "play"}

\* the network requests of one complete upload: fetch(uri) and axios.post
\* on web, axios.post on native
UploadCalls == IF platform = "web" THEN 2 ELSE 1

\* C14: a stopRecording that has started its transport stage has stopped
\* its recording and obtained a URI without a finalize error; one that has
\* started playback preparation (or has written the file or created a
\* sound) has issued its whole upload and got a response, not a failure.
C14_StagesInOrder ==
  \A t \in Tasks :
    tasks[t].kind = "stop" =>
      /\ (tasks[t].net > 0 \/ tasks[t].pc \in TransportPcs \cup PlaybackPcs) =>
           /\ tasks[t].uri # 0
           /\ recordings[tasks[t].rec] = "unloaded"
           /\ tasks[t].err \notin {"NoRecordingProduced", "IncompleteRecording",
                                   "DeviceError", "ConfigurationError"}
      /\ (tasks[t].pc \in PlaybackPcs \/ tasks[t].wrote \/ tasks[t].sound # 0) =>
           /\ tasks[t].net = UploadCalls
           /\ tasks[t].err \notin {"TransportError", "FetchError"}
      /\ tasks[t].pc \in TransportPcs =>
           (~tasks[t].wrote /\ tasks[t].sound = 0 /\ tasks[t].reply = << >>)

\* a native interaction is at its last await, sound.playAsync(), with the
\* recording stopped, the upload answered, the file written, the sound loaded
C14_Witness ==
  \E t \in Tasks :
    /\ tasks[t].pc = "play"
    /\ recordings[tasks[t].rec] = "unloaded"
    /\ tasks[t].uri # 0
    /\ tasks[t].net = UploadCalls
    /\ tasks[t].reply # << >>
    /\ tasks[t].wrote
    /\ tasks[t].sound # 0

\* the stopRecording t is inside sendToAI, suspended at one of its awaits
InSend(t) ==
  tasks[t].kind = "stop" /\ tasks[t].pc \in TransportPcs \cup PlaybackPcs

\* the stopRecording t leaves finalize for sendToAI's first await in this step
EntersSend(t) ==
  /\ tasks[t].kind = "stop"
  /\ tasks[t].pc \in {"stopping", "status"}
  /\ tasks'[t].pc \in TransportPcs

\* C15: awaitingReply becomes true only in the step in which a stopRecording
\* has finalized (recording stopped, URI obtained) and enters sendToAI, and
\* that step sets it; the steps of an interaction between that one and its
\* last leave it as it is; it becomes false only in a step that ends a
\* stopRecording; a successful interaction ends from the await of the
\* playback start call and that step clears it.  While the only
\* stopRecording that held a recording is inside sendToAI, it is true.
C15_RespondingWindow ==
  /\ [](\A t \in Tasks :
          (InSend(t) /\ \A u \in Tasks \ {t} :
                          tasks[u].kind = "stop" => tasks[u].rec = 0)
            => isResponding)
  /\ [][/\ (~isResponding /\ isResponding') => \E t \in Tasks : EntersSend(t)
        /\ (isResponding /\ ~isResponding') =>
             \E t \in Tasks : tasks[t].kind = "stop" /\ Ends(t)
        /\ \A t \in Tasks :
             /\ EntersSend(t) =>
                  /\ isResponding'
                  /\ tasks'[t].uri # 0
                  /\ recordings'[tasks[t].rec] = "unloaded"
             /\ (InSend(t) /\ tasks'[t] # tasks[t] /\ ~Ends(t)) =>
                  isResponding' = isResponding
             /\ (Ends(t) /\ tasks'[t].err = "none" /\ tasks'[t].net > 0) =>
                  (tasks[t].pc \in {"play", "webplay"} /\ ~isResponding')]_vars

\* the one interaction so far is suspended at its playback start call and
\* the reply is still awaited
C15_Witness ==
  \E t \in Tasks :
    /\ tasks[t].pc \in {"play", "webplay"}
    /\ \A u \in Tasks \ {t} : tasks[u].kind = "start"
    /\ isResponding
    /\ ~isRecording

\* every call issued so far has returned
AllReturned == \A t \in Tasks : tasks[t].pc = "done"

\* C16: when every awaited call eventually settles, awaitingReply never
\* stays true forever, and the calls in flight eventually have all returned.
C16_EventuallyIdle ==
  /\ isResponding ~> ~isResponding
  /\ ~AllReturned ~> AllReturned

\* an interaction that was awaiting its reply has failed in sendToAI and
\* returned; no stopRecording is left in flight and no reply is awaited
C16_Witness ==
  \E t \in Tasks :
    /\ tasks[t].kind = "stop"
    /\ tasks[t].net > 0
    /\ tasks[t].err # "none"
    /\ tasks[t].pc = "done"
    /\ NoStopInFlight
    /\ ~isResponding

\* the sound s starts playing in this step
StartsPlaying(s) ==
  /\ sounds'[s] = "playing"
  /\ (s \in DOMAIN sounds => sounds[s] # "playing")

\* C17: on native, playback preparation runs in the order write, release
\* of the previous sound, load, reconfiguration of the audio device, start:
\* a call past the write has written the file, a call that has loaded a
\* sound has released the one it found, and no sound starts playing before
\* the device is in playback mode.
C17_PlaybackOrder ==
  /\ [](\A t \in Tasks :
          /\ tasks[t].pc \in {"unload", "createSound", "playmode", "play"} =>
               tasks[t].wrote
          /\ tasks[t].sound # 0 =>
               (tasks[t].old # 0 => sounds[tasks[t].old] = "unloaded")
          /\ tasks[t].pc = "play" => tasks[t].sound # 0)
  /\ [][\A s \in DOMAIN sounds' : StartsPlaying(s) => audioMode = "playback"]_vars

\* C18: the URI a stopRecording obtains (and uploads) is that of the
\* recording it has stopped.
C18_UploadsStoppedRecording ==
  \A t \in Tasks :
    (tasks[t].kind = "stop" /\ tasks[t].uri # 0) => tasks[t].uri = tasks[t].rec

\* C19: no recording is stopped by two stopRecording calls (each session is
\* finalized, and so uploaded, at most once).
C19_FinalizedOnce ==
  \A t, u \in Tasks :
    (t # u /\ tasks[t].kind = "stop" /\ tasks[u].kind = "stop" /\ tasks[t].rec # 0)
      => tasks[t].rec # tasks[u].rec

\* C20: awaitingReply is true whenever a stopRecording is inside sendToAI
\* (transport or playback preparation in progress).
C20_RespondingWhileSending ==
  (\E t \in Tasks : InSend(t)) => isResponding

====
